---- MODULE Spec2Model ----
(***************************************************************************)
(* Model of src/realtime/listen_and_detect.py: the capture callback, the   *)
(* queue q_in, the consumer loop of stream_and_detect with its rolling     *)
(* audio_buffer, the threshold decision and the events table.              *)
(*                                                                         *)
(* Units.  args.window and args.hop are kept in samples (seconds * sr), so *)
(* int(window_seconds * sr) and int(hop_seconds * sr) are the values       *)
(* themselves.  The k-th sample the device delivers has the value k; the   *)
(* initial silence is 0.  Probabilities and the threshold are integers     *)
(* compared as the floats are: 0 stands for 0.0 and 1 for 1.0, -1 for a    *)
(* value below 0.0 and 2 for a value above 1.0.                            *)
(***************************************************************************)
EXTENDS Integers, Sequences, FiniteSets

\* Number of blocks the device delivers in a run.
MaxCaptured == 3
\* Largest args.window, in samples.
MaxWindow == 3
\* Largest args.hop, in samples.
MaxHop == 3
\* Largest block a variable-size stream delivers, in samples.
MaxFrames == 2

\* queue.Queue() is built without a maxsize: 0 means "no limit".
maxsize == 0

WindowValues == 0..MaxWindow
HopValues == 0..MaxHop
ThresholdValues == {-1, 0, 1, 2}
ProbValues == {-1, 0, 1, 2}

LoopPcs == {"get", "classify"}
StartupErrors == {"FileNotFoundError", "PortAudioError"}

VARIABLES
    args,          \* [window, hop, threshold]: the parsed command line
    pc,            \* position of the main thread in stream_and_detect
    error,         \* the exception that ended stream_and_detect, or "none"
    stream,        \* the sd.InputStream: "unopened", "active" or "closed"
    audio_buffer,  \* the rolling window
    q_in,          \* the queue between the callback and the loop
    cb_pc,         \* position of the audio callback: "idle" or "put"
    indata,        \* the block the running callback holds
    events,        \* the probability column of the events table, in insert order
    captured,      \* history: the blocks handed to the callback, in order
    pushed,        \* history: the blocks the loop folded into audio_buffer
    classifyCalls, \* history: how often lines 84-85 were entered
    decided        \* history: the probabilities for which lines 86-88 completed

vars == <<args, pc, error, stream, audio_buffer, q_in, cb_pc, indata, events,
          captured, pushed, classifyCalls, decided>>

----------------------------------------------------------------------------
\* Pure helpers

RECURSIVE Flatten(_)
Flatten(blocks) ==
    IF blocks = <<>> THEN <<>> ELSE Head(blocks) \o Flatten(Tail(blocks))

Zeros(n) == [i \in 1..n |-> 0]

LastN(n, s) == IF Len(s) <= n THEN s ELSE SubSeq(s, Len(s) - n + 1, Len(s))

\* int(window_seconds * sr), line 63
Capacity(a) == a.window

\* int(hop_seconds * sr), line 61
BlockSize(a) == a.hop

\* The frame counts the stream may hand to one callback: blocksize frames, or
\* any positive count when blocksize is 0 (a variable-size stream).
FramesOf(a) == IF BlockSize(a) = 0 THEN 1..MaxFrames ELSE {BlockSize(a)}

\* The next block the device delivers: fresh consecutive samples.
NewBlock(done, frames) == [i \in 1..frames |-> Len(Flatten(done)) + i]

\* np.roll(a, -n): element i of the result is element (i + n) mod len of a.
Roll_Right(a, n) ==
    IF Len(a) = 0 THEN a
    ELSE [i \in 1..Len(a) |-> a[((i - 1 + Len(a) - (n % Len(a))) % Len(a)) + 1]]

Roll(a, n) ==
    IF Len(a) = 0 THEN a
    ELSE [i \in 1..Len(a) |-> a[((i - 1 + n) % Len(a)) + 1]]

\* First index (0-based) of the slice a[-n:]; -0 is 0, and a start before the
\* array is clipped to 0.
SliceStart(len, n) == IF n = 0 \/ n >= len THEN 0 ELSE len - n

\* a[-n:] = b is accepted when b has the slice's length or broadcasts (length 1).
CanAssign(a, b) ==
    LET sl == Len(a) - SliceStart(Len(a), Len(b))
    IN  Len(b) = sl \/ Len(b) = 1

AssignTail(a, b) ==
    LET st == SliceStart(Len(a), Len(b))
    IN  [i \in 1..Len(a) |->
            IF i <= st THEN a[i]
            ELSE IF Len(b) = 1 THEN b[1] ELSE b[i - st]]

\* queue.Queue.put blocks while the queue is full; a maxsize of 0 is never full.
QueueFull_Bounded(q) == Len(q) >= 1

QueueFull(q) == maxsize > 0 /\ Len(q) >= maxsize

\* queue.Queue.get takes the oldest item.
Dequeue_Lifo(q) == [item |-> q[Len(q)], rest |-> SubSeq(q, 1, Len(q) - 1)]

Dequeue(q) == [item |-> Head(q), rest |-> Tail(q)]

\* if prob >= args.threshold, line 86
ShouldLog_Strict(p, threshold) == p > threshold

ShouldLog(p, threshold) == p >= threshold

----------------------------------------------------------------------------
Init ==
    /\ args \in [window : WindowValues, hop : HopValues, threshold : ThresholdValues]
    /\ pc = "init"
    /\ error = "none"
    /\ stream = "unopened"
    /\ audio_buffer = <<>>
    /\ q_in = <<>>
    /\ cb_pc = "idle"
    /\ indata = <<>>
    /\ events = <<>>
    /\ captured = <<>>
    /\ pushed = <<>>
    /\ classifyCalls = 0
    /\ decided = <<>>

\* Lines 50-72 run through: the table exists, the model loads, the buffer is
\* allocated and the input stream opens.
StartOk ==
    /\ pc = "init"
    /\ pc' = "get"
    /\ audio_buffer' = Zeros(Capacity(args))
    /\ stream' = "active"
    /\ UNCHANGED <<args, error, q_in, cb_pc, indata, events, captured, pushed,
                   classifyCalls, decided>>

\* load_model raises (no model file) or sd.InputStream cannot open the device.
StartFail ==
    /\ pc = "init"
    /\ \E e \in StartupErrors : error' = e
    /\ pc' = "aborted"
    /\ UNCHANGED <<args, stream, audio_buffer, q_in, cb_pc, indata, events,
                   captured, pushed, classifyCalls, decided>>

\* The device thread enters audio_callback with a new block (lines 66-68).
AudioCallback ==
    /\ stream = "active"
    /\ cb_pc = "idle"
    /\ Len(captured) < MaxCaptured
    /\ \E frames \in FramesOf(args) :
          /\ indata' = NewBlock(captured, frames)
          /\ captured' = Append(captured, NewBlock(captured, frames))
    /\ cb_pc' = "put"
    /\ UNCHANGED <<args, pc, error, stream, audio_buffer, q_in, events, pushed,
                   classifyCalls, decided>>

\* q_in.put(indata.copy().ravel()), line 69
CallbackPut ==
    /\ cb_pc = "put"
    /\ ~QueueFull(q_in)
    /\ q_in' = Append(q_in, indata)
    /\ cb_pc' = "idle"
    /\ indata' = <<>>
    /\ UNCHANGED <<args, pc, error, stream, audio_buffer, events, captured, pushed,
                   classifyCalls, decided>>

\* q_in.get(timeout=1.0) raises queue.Empty; the loop continues (lines 75-77).
GetTimeout ==
    /\ pc = "get"
    /\ q_in = <<>>
    /\ UNCHANGED vars

\* q_in.get returns a block, which lines 80-81 fold into audio_buffer.
GetAndPush ==
    /\ pc = "get"
    /\ q_in # <<>>
    /\ LET d == Dequeue(q_in)
           rolled == Roll(audio_buffer, Len(d.item))
       IN  /\ q_in' = d.rest
           /\ pushed' = Append(pushed, d.item)
           /\ IF CanAssign(rolled, d.item)
              THEN /\ audio_buffer' = AssignTail(rolled, d.item)
                   /\ pc' = "classify"
                   /\ error' = error
              ELSE /\ audio_buffer' = rolled
                   /\ pc' = "exiting"
                   /\ error' = "ValueError"
    /\ UNCHANGED <<args, stream, cb_pc, indata, events, captured, classifyCalls,
                   decided>>

\* extract_features or clf.predict_proba raises (lines 84-85).
ClassifyFail ==
    /\ pc = "classify"
    /\ classifyCalls' = classifyCalls + 1
    /\ \E e \in {"ExtractError", "ClassifierError"} : error' = e
    /\ pc' = "exiting"
    /\ UNCHANGED <<args, stream, audio_buffer, q_in, cb_pc, indata, events,
                   captured, pushed, decided>>

\* Lines 84-90 run through with classifier output prob.
ClassifyAndDecide ==
    /\ pc = "classify"
    /\ classifyCalls' = classifyCalls + 1
    /\ \E prob \in ProbValues :
          /\ decided' = Append(decided, prob)
          /\ events' = IF ShouldLog(prob, args.threshold)
                       THEN Append(events, prob)
                       ELSE events
    /\ pc' = "get"
    /\ UNCHANGED <<args, error, stream, audio_buffer, q_in, cb_pc, indata,
                   captured, pushed>>

\* Lines 84-87 with a probability at or above the threshold, and log_event raises.
LogEventFail ==
    /\ pc = "classify"
    /\ classifyCalls' = classifyCalls + 1
    /\ \E prob \in ProbValues : ShouldLog(prob, args.threshold)
    /\ error' = "OperationalError"
    /\ pc' = "exiting"
    /\ UNCHANGED <<args, stream, audio_buffer, q_in, cb_pc, indata, events,
                   captured, pushed, decided>>

\* Ctrl+C: KeyboardInterrupt is raised in the main thread inside the loop.
Interrupt ==
    /\ pc \in LoopPcs
    /\ error' = "KeyboardInterrupt"
    /\ pc' = "exiting"
    /\ UNCHANGED <<args, stream, audio_buffer, q_in, cb_pc, indata, events,
                   captured, pushed, classifyCalls, decided>>

\* The exception leaves the with block of line 72, which closes the stream
\* once no callback is running.
ExitStream_NoClose ==
    /\ pc = "exiting"
    /\ cb_pc = "idle"
    /\ pc' = "done"
    /\ UNCHANGED <<args, error, stream, audio_buffer, q_in, cb_pc, indata, events,
                   captured, pushed, classifyCalls, decided>>

ExitStream ==
    /\ pc = "exiting"
    /\ cb_pc = "idle"
    /\ stream' = "closed"
    /\ pc' = "done"
    /\ UNCHANGED <<args, error, audio_buffer, q_in, cb_pc, indata, events,
                   captured, pushed, classifyCalls, decided>>

Next ==
    \/ StartOk
    \/ StartFail
    \/ AudioCallback
    \/ CallbackPut
    \/ GetTimeout
    \/ GetAndPush
    \/ ClassifyFail
    \/ ClassifyAndDecide
    \/ LogEventFail
    \/ Interrupt
    \/ ExitStream

Spec == Init /\ [][Next]_vars

\* The main thread and the device thread both keep running.
FairSpec ==
    /\ Init
    /\ [][Next]_vars
    /\ WF_vars(GetAndPush)
    /\ WF_vars(ClassifyFail \/ ClassifyAndDecide \/ LogEventFail)
    /\ WF_vars(ExitStream)
    /\ WF_vars(CallbackPut)

----------------------------------------------------------------------------
\* Definitions shared by the properties

IsPrefix(s, t) == Len(s) <= Len(t) /\ SubSeq(t, 1, Len(s)) = s

\* Blocks whose q_in.put has completed.
Enqueued == Len(captured) - (IF cb_pc = "put" THEN 1 ELSE 0)

\* Every block folded so far is non-empty and no longer than the buffer.
NormalRegime ==
    \A i \in 1..Len(pushed) : 1 <= Len(pushed[i]) /\ Len(pushed[i]) <= Capacity(args)

AtLeastThreshold(p) == p >= args.threshold

Clamp(p) == IF p < 0 THEN 0 ELSE IF p > 1 THEN 1 ELSE p

ClampAll(s) == [i \in 1..Len(s) |-> Clamp(s[i])]

\* window_seconds >= hop_seconds > 0 and 0 <= threshold <= 1
ValidConfig ==
    /\ args.window >= args.hop
    /\ args.hop > 0
    /\ 0 <= args.threshold
    /\ args.threshold <= 1

----------------------------------------------------------------------------
\* C1: while every folded block is non-empty and no longer than the buffer,
\* the buffer keeps its length and holds, in order, the last Capacity samples
\* of the initial zeros followed by all folded blocks, and no fold fails.
C1_RollingWindow ==
    (pc \notin {"init", "aborted"} /\ NormalRegime) =>
        /\ Len(audio_buffer) = Capacity(args)
        /\ audio_buffer =
              LastN(Capacity(args), Zeros(Capacity(args)) \o Flatten(pushed))
        /\ error # "ValueError"

C1_Witness ==
    /\ NormalRegime
    /\ Capacity(args) = 3
    /\ Len(pushed) = 3
    /\ Len(pushed[1]) = 1
    /\ Len(pushed[2]) = 2
    /\ audio_buffer[1] # 0

\* C2: after a block longer than the buffer is folded, the fold has succeeded
\* and the buffer holds exactly the last Capacity samples of that block.
C2_Original ==
    (pushed # <<>> /\ Len(pushed[Len(pushed)]) > Capacity(args)) =>
        /\ error # "ValueError"
        /\ Len(audio_buffer) = Capacity(args)
        /\ audio_buffer = LastN(Capacity(args), pushed[Len(pushed)])

\* C3: the queue has a fixed capacity N that its length never exceeds, and
\* N+1 enqueues with no dequeue leave exactly the N newest blocks (stated for
\* the capacities a run of MaxCaptured blocks can overflow).
C3_Original ==
    \E N \in 1..(MaxCaptured - 1) :
        /\ Len(q_in) <= N
        /\ (pushed = <<>> /\ Enqueued = N + 1) => q_in = LastN(N, captured)

\* C4: the stored events are exactly, in order, the probabilities at or above
\* the threshold among the blocks whose processing completed: one event per
\* such block, none for a block below the threshold.
C4_InclusiveThreshold == events = SelectSeq(decided, AtLeastThreshold)

C4_Witness ==
    /\ Len(events) = 1
    /\ events[1] = args.threshold
    /\ \E i \in 1..Len(decided) : decided[i] < args.threshold

\* C5: a step that starts inside the processing of one block (extraction,
\* classification, event append) leaves the loop only by an interrupt.
C5_Original ==
    [][(pc = "classify" /\ pc' \notin LoopPcs) => error' = "KeyboardInterrupt"]_vars

\* C6: with an invalid configuration the stream is never opened, no block is
\* captured or classified and no event is written.
C6_Original ==
    ~ValidConfig =>
        /\ stream = "unopened"
        /\ captured = <<>>
        /\ classifyCalls = 0
        /\ events = <<>>

\* C7 (safety part): the blocks folded into the buffer are a prefix of the blocks captured,
\* classification is entered once per dequeued block and at no other time,
\* and while enqueued blocks are still unclassified the loop goes on until it
\* has classified every enqueued block, unless it is left.
C7_Safety ==
    /\ IsPrefix(pushed, captured)
    /\ classifyCalls <= Len(pushed)
    /\ pc = "get" => classifyCalls = Len(pushed)
    /\ pc = "classify" => classifyCalls + 1 = Len(pushed)

\* C7: the ordering and once-per-block invariant above, always, together with
\* the progress of the loop through the enqueued blocks.
C7_OrderedLossless ==
    /\ []C7_Safety
    /\ (Enqueued > classifyCalls) ~> (Enqueued = classifyCalls \/ pc \notin LoopPcs)

C7_Witness ==
    /\ Len(pushed) >= 2
    /\ classifyCalls >= 2
    /\ q_in # <<>>
    /\ pc = "get"

\* C8: once the loop is left the stream gets closed, and from then on nothing
\* is enqueued, classified or written; blocks still queued stay unprocessed.
C8_StoppedReleasesCapture ==
    /\ [](pc = "done" => (stream = "closed" /\ cb_pc = "idle"))
    /\ [][pc = "done" =>
            /\ pc' = "done"
            /\ q_in' = q_in
            /\ captured' = captured
            /\ classifyCalls' = classifyCalls
            /\ events' = events]_vars
    /\ (pc = "exiting") ~> (pc = "done")

C8_Witness ==
    /\ pc = "done"
    /\ stream = "closed"
    /\ q_in # <<>>
    /\ Len(captured) < MaxCaptured

\* C9: every stored probability lies in [0,1] and the events are the clamped
\* classifier outputs that reach the threshold.
C9_Original ==
    /\ \A i \in 1..Len(events) : 0 <= events[i] /\ events[i] <= 1
    /\ events = SelectSeq(ClampAll(decided), AtLeastThreshold)

\* C10: whenever the callback is at its enqueue step, the step can be taken,
\* whatever the queue holds and wherever the loop is.
C10_PutNeverBlocks == (cb_pc = "put") => ENABLED CallbackPut

C10_Witness ==
    /\ cb_pc = "put"
    /\ Len(q_in) >= 2
    /\ pc \in {"classify", "exiting"}

====
